---- MODULE Spec2Model ----
(***************************************************************************)
(* A model of easysql's Row and RowSet (src/easysql.py).                   *)
(*                                                                         *)
(* RowSet is a lazy adapter over a generator of rows: rows are pulled from *)
(* the generator on demand and cached in _all_rows.  Row is a pair of      *)
(* parallel lists, the column names and the values.                        *)
(*                                                                         *)
(* Python values are modelled as follows.  A list is a sequence.  An       *)
(* optional integer (a slice bound) is the empty sequence for None and the *)
(* one-element sequence <<n>> for the integer n.  A generator is the       *)
(* sequence it will produce and the number of rows it has produced.  The   *)
(* outcome of a call is a record saying whether it returned or raised.     *)
(***************************************************************************)
EXTENDS Integers, Sequences, FiniteSets, TLC

VARIABLES
    rowset,     \* the RowSet object: _pre_rows, _all_rows, pending
    iters,      \* the generator objects made by iter(rowset)
    result,     \* the outcome of the last RowSet operation
    last,       \* the last RowSet operation, its argument, the RowSet before it
    row,        \* the Row object: _keys, _values
    rowResult,  \* the outcome of the last Row operation
    rowLast     \* the last Row operation, its arguments, the Row before it

vars == <<rowset, iters, result, last, row, rowResult, rowLast>>
rowsetVars == <<rowset, iters, result, last>>
rowVars == <<row, rowResult, rowLast>>

----------------------------------------------------------------------------
(* Bounds of the model. *)

MaxRows == 2    \* the generator produces at most this many rows
MaxIdx == 2     \* the largest integer used as an index or as a slice's stop
MaxStart == 1   \* the largest integer used as a slice's start
MaxNeg == 1     \* the most negative integer used as an index, stop or step
MaxStep == 2    \* the largest slice step
NumIters == 2   \* the number of iterators alive over the RowSet
MaxCols == 2    \* a Row has at most this many columns
MaxVal == 2     \* column values are drawn from 1..MaxVal

----------------------------------------------------------------------------
(* Python built-ins the code relies on. *)

None == <<>>
Some(n) == <<n>>
IsNone(x) == x = <<>>
Val(x) == x[1]

Min(a, b) == IF a < b THEN a ELSE b
Max(a, b) == IF a > b THEN a ELSE b

\* slice.indices(length): the concrete start, stop and step of a slice
\* applied to a list of the given length (step 0 is not modelled).
PySliceIndices(sl, length) ==
    LET step  == IF IsNone(sl.step) THEN 1 ELSE Val(sl.step)
        lower == IF step < 0 THEN -1 ELSE 0
        upper == IF step < 0 THEN length - 1 ELSE length
        Clamp(b) == IF Val(b) < 0 THEN Max(Val(b) + length, lower)
                                  ELSE Min(Val(b), upper)
        start == IF IsNone(sl.start)
                    THEN (IF step < 0 THEN upper ELSE lower)
                    ELSE Clamp(sl.start)
        stop  == IF IsNone(sl.stop)
                    THEN (IF step < 0 THEN lower ELSE upper)
                    ELSE Clamp(sl.stop)
    IN  [start |-> start, stop |-> stop, step |-> step]

\* range(start, stop, step) as a sequence of 0-based indices.
RECURSIVE PyRange(_, _, _)
PyRange(start, stop, step) ==
    IF (step > 0 /\ start >= stop) \/ (step < 0 /\ start <= stop)
        THEN <<>>
        ELSE <<start>> \o PyRange(start + step, stop, step)

\* list[slice]: a new list.
ListSlice(list, sl) ==
    LET ind == PySliceIndices(sl, Len(list))
        idx == PyRange(ind.start, ind.stop, ind.step)
    IN  [k \in 1..Len(idx) |-> list[idx[k] + 1]]

\* list[i] for an integer i: negative indices count from the end; an index
\* out of range raises IndexError (ok = FALSE).
ListIndex(list, i) ==
    LET j == IF i < 0 THEN i + Len(list) ELSE i
    IN  IF 0 <= j /\ j < Len(list)
            THEN [ok |-> TRUE, at |-> j + 1]
            ELSE [ok |-> FALSE, at |-> 0]

\* list.count(x) and list.index(x) (1-based here; 0 when x is absent,
\* where Python raises ValueError).
ListCount(list, x) == Cardinality({k \in 1..Len(list) : list[k] = x})
ListFind(list, x) ==
    IF \E k \in 1..Len(list) : list[k] = x
        THEN CHOOSE k \in 1..Len(list) :
                 list[k] = x /\ \A j \in 1..(k - 1) : list[j] # x
        ELSE 0

SeqsUpTo(S, n) == UNION {[1..k -> S] : k \in 0..n}

----------------------------------------------------------------------------
(* class Row.  A value stored in a row is an integer <<n>>; None is <<>>. *)

ColNames == {"a", "b"}          \* the column names rows are built from
LookupNames == ColNames \cup {"c"}   \* "c" is never a column
Values == {Some(v) : v \in 1..MaxVal}   \* the values stored in rows

\* A key given to a Row: an int (is_int) or a column name.
IntKey(i) == [is_int |-> TRUE, i |-> i, name |-> ""]
NameKey(n) == [is_int |-> FALSE, i |-> 0, name |-> n]
RowKeys == {IntKey(i) : i \in (-(MaxCols + 1))..MaxCols}
               \cup {NameKey(n) : n \in LookupNames}

\* The position of a key among the column names: column names are strings,
\* so an int key equals none of them.
KeyCount(keys, key) == IF key.is_int THEN 0 ELSE ListCount(keys, key.name)
KeyFind(keys, key) == IF key.is_int THEN 0 ELSE ListFind(keys, key.name)

Returned(v) == [kind |-> "return", val |-> v, exc |-> ""]
Raised(e) == [kind |-> "raise", val |-> None, exc |-> e]
NoResult == [kind |-> "none", val |-> None, exc |-> ""]

\* Row.__init__: the assert on the two lengths.
Row_init(keys, values) ==
    IF Len(keys) = Len(values)
        THEN [ok |-> TRUE, row |-> [keys |-> keys, values |-> values]]
        ELSE [ok |-> FALSE, row |-> [keys |-> <<>>, values |-> <<>>]]

\* Row.__getitem__ without the count of the key: the first field wins.
Row_getitem_first_field(r, key) ==
    IF key.is_int
        THEN LET x == ListIndex(r.values, key.i)
             IN  IF x.ok THEN Returned(r.values[x.at]) ELSE Raised("IndexError")
        ELSE IF KeyCount(r.keys, key) > 0
            THEN Returned(r.values[KeyFind(r.keys, key)])
            ELSE Raised("KeyError: No field")

\* Row.__getitem__
Row_getitem(r, key) ==
    IF key.is_int
        THEN LET x == ListIndex(r.values, key.i)
             IN  IF x.ok THEN Returned(r.values[x.at]) ELSE Raised("IndexError")
        ELSE IF KeyCount(r.keys, key) > 0
            THEN LET i == KeyFind(r.keys, key)
                 IN  IF KeyCount(r.keys, key) > 1
                         THEN Raised("KeyError: Multiple fields")
                         ELSE Returned(r.values[i])
            ELSE Raised("KeyError: No field")

\* Row.get: only KeyError is caught.
Row_get(r, key, default) ==
    LET x == Row_getitem(r, key)
    IN  IF x.kind = "raise" /\ x.exc \in {"KeyError: Multiple fields",
                                          "KeyError: No field"}
            THEN Returned(default)
            ELSE x

\* Row.set as a dict would do it: an absent key is added with its value.
Row_set_adds_absent(r, key, value) ==
    LET i == KeyFind(r.keys, key)
    IN  IF i = 0
            THEN [row |-> [keys |-> Append(r.keys, key.name),
                           values |-> Append(r.values, value)],
                  res |-> Returned(None)]
            ELSE [row |-> [r EXCEPT !.values[i] = value],
                  res |-> Returned(None)]

\* Row.set: list.index raises ValueError for an absent key; otherwise the
\* value at the first occurrence of the key is replaced.
Row_set(r, key, value) ==
    LET i == KeyFind(r.keys, key)
    IN  IF i = 0
            THEN [row |-> r, res |-> Raised("ValueError")]
            ELSE [row |-> [r EXCEPT !.values[i] = value],
                  res |-> Returned(None)]

NoRowKey == NameKey("")
NoRow == [keys |-> <<>>, values |-> <<>>]
RowOp(op, key, value, before, args) ==
    [op |-> op, key |-> key, value |-> value, before |-> before, args |-> args]

\* Row(keys, values): a failed assert leaves no new object, the old one stays.
RowNew(keys, values) ==
    LET c == Row_init(keys, values)
    IN  /\ row' = (IF c.ok THEN c.row ELSE row)
        /\ rowResult' = (IF c.ok THEN Returned(None) ELSE Raised("AssertionError"))
        /\ rowLast' = RowOp("init", NoRowKey, None, row,
                           [keys |-> keys, values |-> values])
        /\ UNCHANGED rowsetVars

\* row[key]
RowGetItem(key) ==
    /\ rowResult' = Row_getitem(row, key)
    /\ rowLast' = RowOp("getitem", key, None, row, NoRow)
    /\ UNCHANGED <<row, rowsetVars>>

\* row.get(key, default)
RowGet(key, default) ==
    /\ rowResult' = Row_get(row, key, default)
    /\ rowLast' = RowOp("get", key, default, row, NoRow)
    /\ UNCHANGED <<row, rowsetVars>>

\* row.set(key, value)
RowSetValue(key, value) ==
    LET s == Row_set(row, key, value)
    IN  /\ row' = s.row
        /\ rowResult' = s.res
        /\ rowLast' = RowOp("set", key, value, row, NoRow)
        /\ UNCHANGED rowsetVars

----------------------------------------------------------------------------
(* class RowSet *)

\* The k-th row (0-based) the generator produces.  RowSet never looks into
\* a row, except scalar(), which takes its first column.
RowAt(k) == [keys |-> <<"a", "b">>, values |-> <<Some(k), Some(k + 1)>>]
Source(n) == [k \in 1..n |-> RowAt(k - 1)]

\* A generator: the rows it produces and how many it has produced.
Generator(src) == [src |-> src, pos |-> 0]

\* next(generator): an exhausted generator raises StopIteration, every time.
GenNext(g) ==
    IF g.pos < Len(g.src)
        THEN [gen |-> [g EXCEPT !.pos = g.pos + 1], stop |-> FALSE,
              row |-> g.src[g.pos + 1]]
        ELSE [gen |-> g, stop |-> TRUE, row |-> NoRow]

\* RowSet.__init__
RowSet_init(rows) == [pre_rows |-> rows, all_rows |-> <<>>, pending |-> TRUE]

\* RowSet.__len__
RowSet_len(rs) == Len(rs.all_rows)

\* RowSet.__next__ with insert(0, nextrow) for append(nextrow).
RowSet_next_prepends(rs) ==
    LET n == GenNext(rs.pre_rows)
    IN  IF ~n.stop
            THEN [rs |-> [rs EXCEPT !.pre_rows = n.gen,
                                    !.all_rows = <<n.row>> \o rs.all_rows],
                  stop |-> FALSE, row |-> n.row]
            ELSE [rs |-> [rs EXCEPT !.pre_rows = n.gen, !.pending = FALSE],
                  stop |-> TRUE, row |-> NoRow]

\* RowSet.__next__ without the assignment in its except clause.
RowSet_next_keeps_pending(rs) ==
    LET n == GenNext(rs.pre_rows)
    IN  IF ~n.stop
            THEN [rs |-> [rs EXCEPT !.pre_rows = n.gen,
                                    !.all_rows = Append(rs.all_rows, n.row)],
                  stop |-> FALSE, row |-> n.row]
            ELSE [rs |-> [rs EXCEPT !.pre_rows = n.gen],
                  stop |-> TRUE, row |-> NoRow]

\* RowSet.__next__
RowSet_next(rs) ==
    LET n == GenNext(rs.pre_rows)
    IN  IF ~n.stop
            THEN [rs |-> [rs EXCEPT !.pre_rows = n.gen,
                                    !.all_rows = Append(rs.all_rows, n.row)],
                  stop |-> FALSE, row |-> n.row]
            ELSE [rs |-> [rs EXCEPT !.pre_rows = n.gen, !.pending = FALSE],
                  stop |-> TRUE, row |-> NoRow]

\* A key given to a RowSet: an int, or a slice of three optional ints.
Slice(start, stop, step) == [start |-> start, stop |-> stop, step |-> step]
IndexKey(i) == [is_int |-> TRUE, i |-> i, sl |-> Slice(None, None, None)]
SliceKey(start, stop, step) ==
    [is_int |-> FALSE, i |-> 0, sl |-> Slice(start, stop, step)]

\* The while loop of RowSet.__getitem__: turn generator rows into cached
\* rows until the slice's stop is reached or the generator is exhausted.
RECURSIVE RowSet_fill(_, _)
\* The same loop with <= for <: one row too many.
RowSet_fill_one_more(rs, stop) ==
    IF IsNone(stop) \/ RowSet_len(rs) <= Val(stop)
        THEN LET n == RowSet_next(rs)
             IN  IF n.stop THEN n.rs ELSE RowSet_fill(n.rs, stop)
        ELSE rs

\* The same loop taking a negative stop, like None, as "all the rows".
RowSet_fill_negative_all(rs, stop) ==
    IF IsNone(stop) \/ Val(stop) < 0 \/ RowSet_len(rs) < Val(stop)
        THEN LET n == RowSet_next(rs)
             IN  IF n.stop THEN n.rs ELSE RowSet_fill(n.rs, stop)
        ELSE rs

RowSet_fill(rs, stop) ==
    IF IsNone(stop) \/ RowSet_len(rs) < Val(stop)
        THEN LET n == RowSet_next(rs)
             IN  IF n.stop THEN n.rs ELSE RowSet_fill(n.rs, stop)
        ELSE rs

NoRowSet == RowSet_init(Generator(<<>>))
RsRow(r) == [kind |-> "row", exc |-> "", row |-> r, rowset |-> NoRowSet, val |-> None]
RsRowSet(x) == [kind |-> "rowset", exc |-> "", row |-> NoRow, rowset |-> x, val |-> None]
RsValue(v) == [kind |-> "value", exc |-> "", row |-> NoRow, rowset |-> NoRowSet, val |-> v]
RsSelf == [kind |-> "self", exc |-> "", row |-> NoRow, rowset |-> NoRowSet, val |-> None]
RsRaised(e) == [kind |-> "raise", exc |-> e, row |-> NoRow, rowset |-> NoRowSet, val |-> None]
RsNone == [kind |-> "none", exc |-> "", row |-> NoRow, rowset |-> NoRowSet, val |-> None]

\* RowSet.__getitem__
RowSet_getitem(rs, key) ==
    LET sli == IF key.is_int THEN Slice(Some(key.i), Some(key.i + 1), None)
                             ELSE key.sl
        rs1 == RowSet_fill(rs, sli.stop)
    IN  IF key.is_int
            THEN LET x == ListIndex(rs1.all_rows, key.i)
                 IN  [rs |-> rs1,
                      res |-> IF x.ok THEN RsRow(rs1.all_rows[x.at])
                                      ELSE RsRaised("IndexError")]
            ELSE [rs |-> rs1,
                  res |-> RsRowSet(RowSet_init(
                              Generator(ListSlice(rs1.all_rows, key.sl))))]

\* A generator object made by RowSet.__iter__: "new" before its first
\* next(), "suspended" at a yield with the local i, "done" after return.
NewIter == [status |-> "new", i |-> 0]
NoIter == [status |-> "none", i |-> 0]

\* RowSet.__iter__ without the look into the cache: every row comes from
\* next(self).
RowSet_iter_no_cache(rs, it) ==
    LET i == IF it.status = "new" THEN 0 ELSE it.i + 1
        n == RowSet_next(rs)
    IN  IF n.stop
            THEN [rs |-> n.rs, it |-> [status |-> "done", i |-> i],
                  res |-> RsRaised("StopIteration")]
            ELSE [rs |-> n.rs, it |-> [status |-> "suspended", i |-> i],
                  res |-> RsRow(n.row)]

\* One resumption of RowSet.__iter__, up to its next yield or its return.
RowSet_iter(rs, it) ==
    LET i == IF it.status = "new" THEN 0 ELSE it.i + 1
    IN  IF i < RowSet_len(rs)
            THEN LET g == RowSet_getitem(rs, IndexKey(i))
                 IN  IF g.res.kind = "raise"
                         THEN [rs |-> g.rs, it |-> [status |-> "done", i |-> i],
                               res |-> g.res]
                         ELSE [rs |-> g.rs, it |-> [status |-> "suspended", i |-> i],
                               res |-> g.res]
            ELSE LET n == RowSet_next(rs)
                 IN  IF n.stop
                         THEN [rs |-> n.rs, it |-> [status |-> "done", i |-> i],
                               res |-> RsRaised("StopIteration")]
                         ELSE [rs |-> n.rs, it |-> [status |-> "suspended", i |-> i],
                               res |-> RsRow(n.row)]

\* list(rowset): a new iterator run until it returns.
RECURSIVE ListLoop(_, _, _)
ListLoop(rs, it, out) ==
    LET r == RowSet_iter(rs, it)
    IN  IF r.it.status = "done"
            THEN [rs |-> r.rs, list |-> out, res |-> r.res]
            ELSE ListLoop(r.rs, r.it, Append(out, r.res.row))
ListOf(rs) == ListLoop(rs, NewIter, <<>>)

\* RowSet.all
RowSet_all(rs) == [rs |-> ListOf(rs).rs, res |-> RsSelf]

\* RowSet.first
RowSet_first(rs) == RowSet_getitem(rs, IndexKey(0))

\* RowSet.one with len(self) for len(list(self)): nothing is consumed.
RowSet_one_cached_only(rs) ==
    IF RowSet_len(rs) > 1
        THEN [rs |-> rs, res |-> RsRaised("ValueError")]
        ELSE RowSet_first(rs)

\* RowSet.one
RowSet_one(rs) ==
    LET l == ListOf(rs)
    IN  IF Len(l.list) > 1
            THEN [rs |-> l.rs, res |-> RsRaised("ValueError")]
            ELSE RowSet_first(l.rs)

\* RowSet.scalar: first()[0], where the row's own lookup may raise as well.
RowSet_scalar(rs) ==
    LET f == RowSet_first(rs)
    IN  IF f.res.kind = "raise"
            THEN f
            ELSE LET x == Row_getitem(f.res.row, IntKey(0))
                 IN  [rs |-> f.rs,
                      res |-> IF x.kind = "raise" THEN RsRaised(x.exc)
                                                  ELSE RsValue(x.val)]

----------------------------------------------------------------------------
(* The operations on the RowSet, with their arguments. *)

Ints == (-MaxNeg)..MaxIdx
SliceStarts == {None} \cup {Some(n) : n \in 0..MaxStart}
SliceStops == {None} \cup {Some(n) : n \in Ints}
SliceSteps == {None} \cup {Some(n) : n \in ((-MaxNeg)..MaxStep) \ {0, 1}}
Keys == {IndexKey(i) : i \in Ints}
            \cup {SliceKey(a, b, c) : a \in SliceStarts, b \in SliceStops,
                                      c \in SliceSteps}
IterIds == 1..NumIters

NoKey == SliceKey(None, None, None)
Op(op, key, it) == [op |-> op, key |-> key, before |-> rowset, it |-> it]

\* A call on the RowSet that is not made through an iterator.
Call(op, key, r) ==
    /\ rowset' = r.rs
    /\ result' = r.res
    /\ last' = Op(op, key, 0)
    /\ UNCHANGED <<iters, rowVars>>

\* next(rowset)
RowSetNext ==
    LET n == RowSet_next(rowset)
    IN  Call("next", NoKey,
             [rs |-> n.rs,
              res |-> IF n.stop THEN RsRaised("StopIteration") ELSE RsRow(n.row)])

\* rowset[key]
GetItem(key) == Call("getitem", key, RowSet_getitem(rowset, key))

\* rowset.all()
All == Call("all", NoKey, RowSet_all(rowset))

\* rowset.first()
First == Call("first", NoKey, RowSet_first(rowset))

\* rowset.one()
One == Call("one", NoKey, RowSet_one(rowset))

\* rowset.scalar()
Scalar == Call("scalar", NoKey, RowSet_scalar(rowset))

\* iter(rowset): a new generator object; no code of __iter__ runs yet.
Iter(id) ==
    /\ iters[id].gen.status \in {"none", "done"}
    /\ iters' = [iters EXCEPT ![id] = [gen |-> NewIter, out |-> <<>>]]
    /\ result' = RsNone
    /\ last' = Op("iter", NoKey, id)
    /\ UNCHANGED <<rowset, rowVars>>

\* next(it) on a generator object that has not returned.
IterNext(id) ==
    /\ iters[id].gen.status \in {"new", "suspended"}
    /\ LET r == RowSet_iter(rowset, iters[id].gen)
       IN  /\ rowset' = r.rs
           /\ iters' = [iters EXCEPT ![id] =
                  [gen |-> r.it,
                   out |-> IF r.res.kind = "row" THEN Append(@.out, r.res.row)
                                                 ELSE @.out]]
           /\ result' = r.res
           /\ last' = Op("iternext", NoKey, id)
    /\ UNCHANGED rowVars

----------------------------------------------------------------------------
(* Specifications. *)

RowKeySeqs == SeqsUpTo(ColNames, MaxCols)
RowValueSeqs == SeqsUpTo(Values, MaxCols)
Rows == {[keys |-> k, values |-> v] : k \in RowKeySeqs, v \in RowValueSeqs}
ValidRows == {r \in Rows : Row_init(r.keys, r.values).ok}

InitRowSet(n) ==
    /\ rowset = RowSet_init(Generator(Source(n)))
    /\ iters = [id \in IterIds |-> [gen |-> NoIter, out |-> <<>>]]
    /\ result = RsNone
    /\ last = [op |-> "init", key |-> NoKey, before |-> rowset, it |-> 0]

InitRow(r) ==
    /\ row = r
    /\ rowResult = NoResult
    /\ rowLast = RowOp("none", NoRowKey, None, r, NoRow)

\* A RowSet over a generator of 0..MaxRows rows.
Init ==
    /\ \E n \in 0..MaxRows : InitRowSet(n)
    /\ InitRow(RowAt(0))

Next ==
    \/ RowSetNext
    \/ \E key \in Keys : GetItem(key)
    \/ All
    \/ First
    \/ One
    \/ Scalar
    \/ \E id \in IterIds : Iter(id)
    \/ \E id \in IterIds : IterNext(id)

Spec == Init /\ [][Next]_vars

\* A Row of up to MaxCols columns.
RowInit ==
    /\ InitRowSet(0)
    /\ \E r \in ValidRows : InitRow(r)

RowNext ==
    \/ \E k \in RowKeySeqs, v \in RowValueSeqs : RowNew(k, v)
    \/ \E key \in RowKeys : RowGetItem(key)
    \/ \E key \in RowKeys, default \in Values \cup {None} : RowGet(key, default)
    \/ \E key \in RowKeys, value \in Values : RowSetValue(key, value)

RowSpec == RowInit /\ [][RowNext]_vars

----------------------------------------------------------------------------
(* Properties of RowSet, checked under Spec. *)

src == rowset.pre_rows.src          \* r0..rN-1, the rows of the generator
N == Len(src)
IsPrefix(s, t) == Len(s) <= Len(t) /\ s = SubSeq(t, 1, Len(s))
Fresh(rs) == rs = RowSet_init(Generator(rs.pre_rows.src))

\* C1: an iteration over the RowSet yields r0..rN-1 in order, each once,
\* whatever the cache holds when it starts and however it is interleaved
\* with other iterators, next(rowset) and indexing: what an iterator has
\* yielded so far is the prefix of the rows up to its position, a finished
\* iterator has yielded all the rows, and list(rowset) is the rows.  When an
\* iteration or all() has run to completion, len(rowset) = N and pending is
\* False.
C1_IterationYieldsRows ==
    /\ \A id \in IterIds :
         LET it == iters[id]
         IN  /\ IsPrefix(it.out, src)
             /\ it.gen.status = "new" => it.out = <<>>
             /\ it.gen.status = "suspended" => Len(it.out) = it.gen.i + 1
             /\ it.gen.status = "done" =>
                    /\ it.out = src
                    /\ RowSet_len(rowset) = N
                    /\ ~rowset.pending
    /\ ListOf(rowset).list = src
    /\ last.op = "all" => RowSet_len(rowset) = N /\ ~rowset.pending

\* An iterator has finished over two rows while another, started on the
\* empty cache, is still suspended at its first row.
C1_Witness ==
    /\ N = 2
    /\ iters[1].gen.status = "done"
    /\ iters[1].out = src
    /\ iters[2].gen.status = "suspended"
    /\ iters[2].gen.i = 0

\* C2: a new RowSet has len 0 and pending True; rowset[i] with an integer
\* i >= 0 pulls rows only until i + 1 are cached, so that afterwards
\* len(rowset) = max(len before, min(i + 1, N)); first() on a fresh
\* non-empty RowSet leaves len(rowset) = 1.
C2_LazyMaterialization ==
    /\ last.op = "init" => RowSet_len(rowset) = 0 /\ rowset.pending
    /\ (last.op = "getitem" /\ last.key.is_int /\ last.key.i >= 0) =>
           /\ RowSet_len(rowset) =
                  Max(RowSet_len(last.before), Min(last.key.i + 1, N))
           /\ rowset.pre_rows.pos = RowSet_len(rowset)
    /\ (last.op = "first" /\ Fresh(last.before) /\ N > 0) =>
           RowSet_len(rowset) = 1

\* rowset[0] on a fresh RowSet of two rows has cached one row.
C2_Witness ==
    /\ last.op = "getitem" /\ last.key.is_int /\ last.key.i = 0
    /\ Fresh(last.before)
    /\ N = 2
    /\ RowSet_len(rowset) = 1
    /\ rowset.pending

\* C3: rowset[key] with an integer key >= 0, or a slice whose start and
\* stop are >= 0 or omitted, selects the rows that [r0..rN-1][key] selects:
\* an integer i < N returns ri, an integer i >= N raises IndexError (so
\* first() on an empty RowSet raises IndexError), and a slice returns a new
\* RowSet whose iteration yields the rows of that slice of the list.
C3_GetItemLikeList ==
    /\ (last.op = "getitem" /\ last.key.is_int /\ last.key.i >= 0) =>
           IF last.key.i < N
               THEN result = RsRow(src[last.key.i + 1])
               ELSE result = RsRaised("IndexError")
    /\ (/\ last.op = "getitem" /\ ~last.key.is_int
        /\ (IsNone(last.key.sl.start) \/ Val(last.key.sl.start) >= 0)
        /\ (IsNone(last.key.sl.stop) \/ Val(last.key.sl.stop) >= 0)) =>
           /\ result.kind = "rowset"
           /\ Fresh(result.rowset)
           /\ ListOf(result.rowset).list = ListSlice(src, last.key.sl)
    /\ (last.op = "first" /\ N = 0) => result = RsRaised("IndexError")

\* C4: a next(rowset) that succeeds returns the next row of the generator
\* not fetched yet and makes len(rowset) one larger, so len(rowset) is the
\* number of successful fetches; on an exhausted generator it raises
\* StopIteration, sets pending to False and leaves the cache as it was, and
\* every later next(rowset) raises StopIteration again.
C4_Next ==
    /\ RowSet_len(rowset) = rowset.pre_rows.pos
    /\ (last.op = "next" /\ result.kind # "raise") =>
           /\ result = RsRow(src[last.before.pre_rows.pos + 1])
           /\ rowset.all_rows = Append(last.before.all_rows, result.row)
           /\ rowset.pending = last.before.pending
    /\ (last.op = "next" /\ result.kind = "raise") =>
           /\ result = RsRaised("StopIteration")
           /\ last.before.pre_rows.pos = N
           /\ ~rowset.pending
           /\ rowset.all_rows = last.before.all_rows
    /\ (last.op = "next" /\ ~last.before.pending) => result.kind = "raise"

\* next(rowset) has raised StopIteration a second time, after two rows.
C4_Witness ==
    /\ last.op = "next"
    /\ ~last.before.pending
    /\ result = RsRaised("StopIteration")
    /\ RowSet_len(rowset) = 2

\* C5: one() returns the only row of a RowSet of one row, raises ValueError
\* on more than one row and IndexError on none; in every case the generator
\* is consumed, pending is False afterwards.
C5_One ==
    last.op = "one" =>
        /\ ~rowset.pending
        /\ rowset.all_rows = src
        /\ N = 0 => result = RsRaised("IndexError")
        /\ N = 1 => result = RsRow(src[1])
        /\ N > 1 => result = RsRaised("ValueError")

\* one() on a fresh RowSet of one row has returned it.
C5_Witness ==
    /\ last.op = "one"
    /\ Fresh(last.before)
    /\ N = 1
    /\ result = RsRow(src[1])

\* C6: scalar() returns the first column of the first row when there is a
\* row, and returns a default value, raising nothing, when there is none.
C6_ScalarOrDefault ==
    last.op = "scalar" =>
        /\ N > 0 => result = RsValue(src[1].values[1])
        /\ N = 0 => result.kind = "value"

\* C10: in every reachable state the cached rows are the first len(rowset)
\* rows of the generator, in order, and pending = False implies that every
\* row is cached; in every step len(rowset) does not decrease and pending
\* does not change from False to True.
C10_CacheInvariant ==
    /\ [](/\ IsPrefix(rowset.all_rows, src)
          /\ ~rowset.pending => rowset.all_rows = src)
    /\ [][/\ Len(rowset'.all_rows) >= Len(rowset.all_rows)
          /\ ~rowset.pending => ~rowset'.pending]_vars

\* The generator of two rows has been exhausted with both rows cached,
\* by operations of several kinds.
C10_Witness ==
    /\ N = 2
    /\ rowset.all_rows = src
    /\ ~rowset.pending
    /\ last.op = "getitem"
    /\ iters[1].gen.status = "suspended"

----------------------------------------------------------------------------
(* Properties of Row, checked under RowSpec. *)

Positions(keys, name) == {k \in 1..Len(keys) : keys[k] = name}

\* C7: row[key] with an integer key returns values()[key]; with a
\* non-integer key that occurs once among the column names it returns the
\* value at that column's position; a key that occurs more than once raises
\* KeyError "Multiple '<key>' fields.", a key that does not occur raises
\* KeyError "No '<key>' field.".  The lookup does not modify the row.
C7_RowGetItem ==
    rowLast.op = "getitem" =>
        LET key == rowLast.key
            n == Len(row.values)
            at == Positions(row.keys, key.name)
        IN  /\ row = rowLast.before
            /\ (key.is_int /\ 0 <= key.i /\ key.i < n) =>
                   rowResult = Returned(row.values[key.i + 1])
            /\ (key.is_int /\ -n <= key.i /\ key.i < 0) =>
                   rowResult = Returned(row.values[n + key.i + 1])
            /\ (key.is_int /\ (key.i >= n \/ key.i < -n)) =>
                   rowResult = Raised("IndexError")
            /\ (~key.is_int /\ Cardinality(at) = 1) =>
                   \E k \in at : rowResult = Returned(row.values[k])
            /\ (~key.is_int /\ Cardinality(at) > 1) =>
                   rowResult = Raised("KeyError: Multiple fields")
            /\ (~key.is_int /\ at = {}) =>
                   rowResult = Raised("KeyError: No field")

\* row["b"] on a row with the columns a, b has returned the second value,
\* which differs from the first.
C7_Witness ==
    /\ rowLast.op = "getitem"
    /\ rowLast.key = NameKey("b")
    /\ row.keys = <<"a", "b">>
    /\ row.values[1] # row.values[2]
    /\ rowResult = Returned(row.values[2])

\* C8: row.get(key, default), for a column name or an integer index,
\* returns row[key] when that lookup succeeds and default when it fails; it
\* never raises and never modifies the row.
C8_RowGetNeverRaises ==
    rowLast.op = "get" =>
        LET x == Row_getitem(rowLast.before, rowLast.key)
        IN  /\ row = rowLast.before
            /\ rowResult.kind = "return"
            /\ x.kind = "return" => rowResult = x
            /\ x.kind = "raise" => rowResult = Returned(rowLast.value)

\* C9 as claimed: row.set(key, value) with a key present among the column
\* names makes row[key] return value afterwards, changes no other value and
\* no column name and keeps len(keys) = len(values), which the constructor
\* enforces by an AssertionError; with an absent key it raises ValueError
\* and leaves the row unchanged.
C9_SetThenGetItem ==
    /\ Len(row.keys) = Len(row.values)
    /\ (rowLast.op = "init"
            /\ Len(rowLast.args.keys) # Len(rowLast.args.values)) =>
           rowResult = Raised("AssertionError") /\ row = rowLast.before
    /\ (rowLast.op = "set" /\ KeyCount(rowLast.before.keys, rowLast.key) > 0) =>
           /\ rowResult.kind = "return"
           /\ Row_getitem(row, rowLast.key) = Returned(rowLast.value)
           /\ row.keys = rowLast.before.keys
           /\ Cardinality({k \in 1..Len(row.values) :
                  row.values[k] # rowLast.before.values[k]}) <= 1
    /\ (rowLast.op = "set" /\ KeyCount(rowLast.before.keys, rowLast.key) = 0) =>
           rowResult = Raised("ValueError") /\ row = rowLast.before

\* C9 as amended: row.set(key, value) with a key present among the column
\* names stores value at the key's first occurrence, changes no other value
\* and no column name and keeps len(keys) = len(values), which the
\* constructor enforces by an AssertionError; afterwards row[key] returns
\* value when the key occurs once, and raises KeyError as before when the
\* key occurs more than once.  With an absent key set raises ValueError and
\* leaves the row unchanged.
C9_SetFirstOccurrence ==
    /\ Len(row.keys) = Len(row.values)
    /\ (rowLast.op = "init"
            /\ Len(rowLast.args.keys) # Len(rowLast.args.values)) =>
           rowResult = Raised("AssertionError") /\ row = rowLast.before
    /\ (rowLast.op = "set" /\ KeyCount(rowLast.before.keys, rowLast.key) > 0) =>
           LET at == Positions(rowLast.before.keys, rowLast.key.name)
               first == CHOOSE k \in at : \A j \in at : k <= j
           IN  /\ rowResult.kind = "return"
               /\ row.keys = rowLast.before.keys
               /\ row.values[first] = rowLast.value
               /\ \A k \in 1..Len(row.values) :
                      k # first => row.values[k] = rowLast.before.values[k]
               /\ Cardinality(at) = 1 =>
                      Row_getitem(row, rowLast.key) = Returned(rowLast.value)
               /\ Cardinality(at) > 1 =>
                      Row_getitem(row, rowLast.key) =
                          Raised("KeyError: Multiple fields")
    /\ (rowLast.op = "set" /\ KeyCount(rowLast.before.keys, rowLast.key) = 0) =>
           rowResult = Raised("ValueError") /\ row = rowLast.before

\* set("b", v) has replaced the second value of a row with the columns
\* a, b, and the first value is another one.
C9_Witness ==
    /\ rowLast.op = "set"
    /\ rowLast.key = NameKey("b")
    /\ row.keys = <<"a", "b">>
    /\ rowLast.before.values[2] # rowLast.value
    /\ row.values[2] = rowLast.value
    /\ row.values[1] # rowLast.value

====
